---- MODULE Spec2Model ----
(***************************************************************************)
(* State-machine model of the Outlook e-mail sender (src/index.js):       *)
(*   - retryOperation, the retry/backoff executor;                        *)
(*   - EmailSchema and the POST /send-email handler;                      *)
(*   - enviarEmail: session acquisition, login, the compose and send      *)
(*     locator chains with their scripted fallbacks, and the cleanup.     *)
(* The page is an external collaborator: every awaited browser operation  *)
(* either returns (with a value chosen by the environment) or throws.     *)
(***************************************************************************)
EXTENDS Integers, Sequences, FiniteSets, TLC

\* ------------------------------------------------------------------ bounds
\* largest maxRetries given to a stand-alone retryOperation call
MaxN == 4
\* largest number of elements a compose selector may match (the code caps at 5)
MaxQuantidade == 6
\* concurrent requests
MaxPedidos == 2
\* signals delivered to the process
MaxSinais == 2
\* requests in flight when the process is signalled
MaxEmVoo == 2

\* ------------------------------------------------------- program constants
\* CONFIG.maxRetries
maxRetries == 3
\* CONFIG.retryDelay
retryDelay == 5000
\* seletoresNovoEmail.length
NumSeletoresNovoEmail == 10
\* Math.min(quantidade, 5)
MaxCandidatos == 5
\* retryOperation(click, 3, 2000)
cliqueRetries == 3
cliqueDelay == 2000
\* seletoresCorpo.length
NumSeletoresCorpo == 5
\* seletoresEnviar.length
NumSeletoresEnviar == 7
\* retryOperation(send pass, 3, 3000)
enviarRetries == 3
enviarDelay == 3000

\* --------------------------------------------------------------- variables
VARIABLES
    \* --- retryOperation
    retry,          \* frame of the retryOperation call in progress (or NoRetry)
    rOutcome,       \* what a stand-alone retryOperation call gave its caller
    \* --- app.post("/send-email")
    hpc,            \* position of the handler
    reqBody,        \* req.body
    parseResult,    \* EmailSchema.safeParse(req.body)
    resposta,       \* the HTTP response sent (status 0: none yet)
    \* --- enviarEmail
    epc,            \* position inside enviarEmail
    args,           \* the destructured argument
    navegador, contexto, pagina,   \* the three handles (Null until acquired)
    ouvinte,        \* pagina.on('console') registered
    loginPasso,     \* step of the login unit
    sel, cand, quantidade,         \* selector index, candidate index i, count
    botaoClicado, corpoPreenchido, emailEnviado,
    erro,           \* the error caught by the catch block
    pendente,       \* completion of try/catch, held while finally runs
    resultado,      \* completion of the call as the caller sees it
    logs,           \* the in-memory log buffer
    emitidos,       \* messages log() sent to the process log
    \* --- history (not program state)
    cleanupRuns,    \* how many times the finally block was entered
    closeCalls,     \* close() calls made, in order, with their outcome
    marcos,         \* mandatory steps completed, in order
    regrasFalhas,   \* structural rules that failed in the current pass
    viaNovo, viaEnviar,            \* how compose / send was activated
    opsNoFecho,     \* operations issued on the session after finally began
    \* --- the process: server, signals, process-level handlers
    proc,           \* "running" or "exited"
    exitCode,       \* the code given to process.exit (-1: none)
    causaSaida,     \* which callback called process.exit (history)
    servidor,       \* the HTTP listener: "listening", "closing", "closed"
    closeCbs,       \* callbacks registered by server.close(cb)
    timers,         \* armed 30-second timers
    emVoo,          \* requests (connections) in flight
    sinais,         \* signals received, in order (history)
    fatais,         \* entries logged at level fatal
    \* --- concurrent calls of the handler
    pedidos,        \* per request: position, debug, completion, response
    locais,         \* per call frame: navegador, contexto, pagina, logs
    abertos,        \* browser-side objects that are open
    chamadas        \* calls made on those objects: who called, on which

retryV == <<retry, rOutcome>>
httpV  == <<hpc, reqBody, parseResult, resposta>>
handV  == <<navegador, contexto, pagina, ouvinte>>
chainV == <<sel, cand, quantidade, regrasFalhas>>
flagV  == <<botaoClicado, corpoPreenchido, emailEnviado, viaNovo, viaEnviar>>
logV   == <<logs, emitidos>>
endV   == <<erro, pendente, resultado, cleanupRuns, closeCalls, opsNoFecho>>
callV  == <<epc, args, loginPasso, marcos>>
mainV  == <<httpV, handV, chainV, flagV, logV, endV, callV>>
procV  == <<proc, exitCode, causaSaida, servidor, closeCbs, timers, emVoo,
            sinais, fatais>>
concV  == <<pedidos, locais, abertos, chamadas>>
extV   == <<procV, concV>>
vars   == <<retryV, mainV, extV>>

\* ================================================================ errors
\* An Error object: its message and (for errors raised by an operation run
\* under retryOperation) the number of the invocation that raised it.
NoError == [msg |-> "none", call |-> 0]
Erro(m, c) == [msg |-> m, call |-> c]

\* ======================================================= retryOperation
\* delayMs is a JS number; multiplication by 1.5 leaves the integers, so a
\* delay is kept as the exact fraction n/d.
Ms(n) == [n |-> n, d |-> 1]
MsEq(a, b) == a.n * b.d = b.n * a.d

\* (mutant) the delay doubles
BackoffDouble(delayMs) == [n |-> delayMs.n * 2, d |-> delayMs.d]
\* delayMs *= 1.5
Backoff(delayMs) == [n |-> delayMs.n * 3, d |-> delayMs.d * 2]

\* fields calls, waits, raised and initialDelay are history: the operation
\* invocations made, the waits slept, the errors raised, the delayMs argument
NoRetry ==
    [pc |-> "none", attempt |-> 0, maxRetries |-> 0, delayMs |-> Ms(0),
     lastError |-> NoError, initialDelay |-> Ms(0),
     calls |-> 0, waits |-> <<>>, raised |-> <<>>]

\* entry of retryOperation: let lastError; attempt = 1
RetryStart(maxR, d) ==
    [pc |-> "for", attempt |-> 1, maxRetries |-> maxR, delayMs |-> d,
     lastError |-> NoError, initialDelay |-> d,
     calls |-> 0, waits |-> <<>>, raised |-> <<>>]

\* the for-condition
RetryLooping(r) == r.attempt <= r.maxRetries

\* if (attempt < maxRetries): is there a wait after this failure?
RetryWaits(r) == r.attempt < r.maxRetries

\* (mutant) only the first error is remembered
RetryRememberFirst(r, error) ==
    IF r.lastError = NoError THEN error ELSE r.lastError
\* lastError = error
RetryRemember(r, error) == error

\* one evaluation of the for-condition: either the operation is invoked or
\* the loop is left and lastError is thrown
RetryFor(r) ==
    IF RetryLooping(r)
    THEN [r EXCEPT !.pc = "op", !.calls = @ + 1]
    ELSE [r EXCEPT !.pc = "thrown"]

\* return await operation()
RetryReturn(r) == [r EXCEPT !.pc = "returned"]

\* the catch block and the loop increment
RetryCatch(r, error) ==
    LET r1 == [r EXCEPT !.lastError = RetryRemember(r, error),
                        !.raised = Append(@, error)]
        r2 == IF RetryWaits(r1)
              THEN [r1 EXCEPT !.waits = Append(@, r1.delayMs),
                              !.delayMs = Backoff(r1.delayMs)]
              ELSE r1
    IN  [r2 EXCEPT !.attempt = @ + 1, !.pc = "for"]

\* catch, then the next evaluation of the for-condition
RetryAfterFailure(r, error) == RetryFor(RetryCatch(r, error))

\* =========================================================== EmailSchema
\* A JSON value of the request body.
Undef   == [t |-> "undefined", s |-> "", a |-> <<>>, b |-> FALSE]
Str(x)  == [t |-> "string",    s |-> x,  a |-> <<>>, b |-> FALSE]
Arr(x)  == [t |-> "array",     s |-> "", a |-> x,    b |-> FALSE]
Bool(x) == [t |-> "boolean",   s |-> "", a |-> <<>>, b |-> x]
Num     == [t |-> "number",    s |-> "", a |-> <<>>, b |-> FALSE]

\* z.string().email(): the addresses of the model that zod's pattern accepts
Addresses == {"user@outlook.com", "a@x.com", "b@x.com", "c@x.com"}
IsEmail(x) == x \in Addresses

\* z.string().email()
ZEmail(v) == v.t = "string" /\ IsEmail(v.s)
\* z.string().min(1)
ZMin1(v) == v.t = "string" /\ v.s # ""
\* z.array(z.string().email())
ZEmailArray(v) == v.t = "array" /\ \A i \in 1..Len(v.a) : IsEmail(v.a[i])
\* z.union([z.string().email(), z.array(z.string().email())])
ZRecipients(v) == ZEmail(v) \/ ZEmailArray(v)
\* .transform(val => Array.isArray(val) ? val : [val])
Widen(v) == IF v.t = "array" THEN v ELSE Arr(<<v.s>>)
\* z.enum(['low', 'normal', 'high'])
ZPriority(v) == v.t = "string" /\ v.s \in {"low", "normal", "high"}

\* does EmailSchema accept the body?
SchemaOk(b) ==
    /\ ZEmail(b.email)
    /\ ZMin1(b.password)
    /\ ZRecipients(b.to)
    /\ (b.cc.t = "undefined" \/ ZRecipients(b.cc))
    /\ ZMin1(b.subject)
    /\ (b.body.t \in {"undefined", "string"})
    /\ (b.debug.t \in {"undefined", "boolean"})
    /\ (b.priority.t = "undefined" \/ ZPriority(b.priority))

NoData ==
    [to |-> Undef, cc |-> Undef, subject |-> "", body |-> "", debug |-> FALSE]

\* the parsed data: transforms and defaults applied (email, password and
\* priority are not read again by anything modelled and are left out)
SchemaData(b) ==
    [to      |-> Widen(b.to),
     cc      |-> IF b.cc.t = "undefined" THEN Undef ELSE Widen(b.cc),
     subject |-> b.subject.s,
     body    |-> IF b.body.t = "undefined" THEN "" ELSE b.body.s,
     debug   |-> IF b.debug.t = "undefined" THEN FALSE ELSE b.debug.b]

\* EmailSchema.safeParse
SafeParse(b) ==
    IF SchemaOk(b) THEN [success |-> TRUE, data |-> SchemaData(b)]
    ELSE [success |-> FALSE, data |-> NoData]

\* the request bodies the model sends
Bodies ==
    [email    : {Undef, Str("not-an-email"), Str("user@outlook.com")},
     password : {Str(""), Str("secret")},
     to       : {Undef, Str("a@x.com"), Str("bad"), Arr(<<>>),
                 Arr(<<"a@x.com", "b@x.com">>), Arr(<<"a@x.com", "bad">>)},
     cc       : {Undef, Str("c@x.com"), Arr(<<>>), Str("bad")},
     subject  : {Undef, Str(""), Str("Hi")},
     body     : {Undef, Str("texto"), Str("<p>oi</p>"), Num},
     debug    : {Undef, Bool(TRUE), Str("yes")},
     priority : {Undef, Str("urgent")}]

NoBody ==
    [email |-> Undef, password |-> Undef, to |-> Undef, cc |-> Undef,
     subject |-> Undef, body |-> Undef, debug |-> Undef, priority |-> Undef]

\* ================================================================== log
Null == "null"

\* log(message, level): always to the process log, to the buffer if debug.
\* Only the messages some property reads are recorded, by a tag.
LogEntry(m, level) == [msg |-> m, level |-> level]
\* (mutant) the buffer is never written
KeepsNever(debug) == FALSE
\* (mutant) the buffer is written whatever debug is
KeepsAlways(debug) == TRUE
\* if (debug) logs.push({ time, level, message })
Keeps(debug) == debug
LogD(debug, entries) ==
    /\ emitidos' = emitidos \cup entries
    /\ logs' = IF Keeps(debug) THEN logs \cup entries ELSE logs
Log(entries) == LogD(args.debug, entries)

\* ============================================================ completions
NoCompletion ==
    [tipo |-> "none", success |-> FALSE, temLogs |-> FALSE,
     prefixo |-> "", causa |-> ""]
\* return { success: true, ..., logs: debug ? logs : undefined, ... }
Success(debug) ==
    [tipo |-> "return", success |-> TRUE, temLogs |-> debug,
     prefixo |-> "", causa |-> ""]
\* throw new Error(`Falha no envio do email: ${error.message}`)
Falha(e) ==
    [tipo |-> "throw", success |-> FALSE, temLogs |-> FALSE,
     prefixo |-> "Falha no envio do email", causa |-> e.msg]

NoResponse ==
    [status |-> 0, success |-> FALSE, message |-> <<>>,
     temLogs |-> FALSE, logs |-> {}]

\* ================================================================= Init
InitMain ==
    /\ hpc = "idle" /\ reqBody = NoBody
    /\ parseResult = [success |-> FALSE, data |-> NoData]
    /\ resposta = NoResponse
    /\ epc = "notCalled" /\ args = NoData
    /\ navegador = Null /\ contexto = Null /\ pagina = Null
    /\ ouvinte = FALSE /\ loginPasso = "none"
    /\ sel = 0 /\ cand = 0 /\ quantidade = 0
    /\ botaoClicado = FALSE /\ corpoPreenchido = FALSE /\ emailEnviado = FALSE
    /\ erro = NoError /\ pendente = NoCompletion /\ resultado = NoCompletion
    /\ logs = {} /\ emitidos = {}
    /\ cleanupRuns = 0 /\ closeCalls = <<>> /\ marcos = <<>>
    /\ opsNoFecho = {}
    /\ regrasFalhas = 0 /\ viaNovo = "none" /\ viaEnviar = "none"

\* ================================================= app.post("/send-email")
\* (mutant) the handler never answers 400
NuncaRetorna400(pr) == FALSE
\* if (!parseResult.success) return res.status(400).json(...)
Retorna400(pr) == ~pr.success

\* One synchronous run of the handler from the arrival of the request to
\* its first await: safeParse, then either the 400 response or the call of
\* enviarEmail up to the invocation of chromium.launch under retryOperation.
PostSendEmail ==
    /\ hpc = "idle"
    /\ \E b \in Bodies :
        LET pr == SafeParse(b) IN
        /\ reqBody' = b
        /\ parseResult' = pr
        /\ IF Retorna400(pr)
           THEN /\ resposta' = [NoResponse EXCEPT !.status = 400,
                                    !.message = <<"dados_invalidos">>]
                /\ hpc' = "respondida"
                /\ UNCHANGED <<epc, args, retry, logV>>
           ELSE /\ hpc' = "aguardando"
                /\ args' = pr.data
                /\ epc' = "launch"
                /\ retry' = RetryFor(RetryStart(maxRetries, Ms(retryDelay)))
                /\ LogD(pr.data.debug, {LogEntry("inicio", "info")})
                /\ UNCHANGED resposta
    /\ UNCHANGED <<rOutcome, loginPasso, marcos, handV, chainV, flagV, endV,
                   extV>>

\* const result = await enviarEmail(...); res.json(response)
Responder200 ==
    /\ hpc = "aguardando" /\ epc = "done" /\ resultado.tipo = "return"
    /\ resposta' = [status |-> 200, success |-> resultado.success,
                    message |-> <<"sucesso">>,
                    temLogs |-> resultado.temLogs,
                    logs |-> IF resultado.temLogs THEN logs ELSE {}]
    /\ hpc' = "respondida"
    /\ UNCHANGED <<retryV, reqBody, parseResult, handV, chainV, flagV, logV,
                   endV, callV, extV>>

\* (mutant) the handler has no catch: the rejection is answered by nobody
SemCatch ==
    /\ hpc = "aguardando" /\ epc = "done" /\ resultado.tipo = "throw"
    /\ hpc' = "abandonada"
    /\ UNCHANGED <<retryV, reqBody, parseResult, resposta, handV, chainV, flagV,
                   logV, endV, callV, extV>>
\* catch (error) { res.status(500).json({ message: error.message, ... }) }
Responder500 ==
    /\ hpc = "aguardando" /\ epc = "done" /\ resultado.tipo = "throw"
    /\ resposta' = [NoResponse EXCEPT !.status = 500,
                        !.message = <<resultado.prefixo, resultado.causa>>]
    /\ hpc' = "respondida"
    /\ UNCHANGED <<retryV, reqBody, parseResult, handV, chainV, flagV, logV,
                   endV, callV, extV>>

\* ============================================================ enviarEmail
\* what no step of the try block changes
TeardownComecou == cleanupRuns >= 1
\* the operations issued after the finally block was entered, with `ops`
\* issued now
OpsNoFecho(ops) == IF TeardownComecou THEN opsNoFecho \cup ops ELSE opsNoFecho

Quiet ==
    /\ opsNoFecho' = OpsNoFecho({epc})
    /\ UNCHANGED <<rOutcome, httpV, args, resultado, closeCalls, extV>>
NoThrow == UNCHANGED <<erro, pendente, cleanupRuns>>

\* An error reaches the catch block: it is logged, wrapped and rethrown, and
\* the finally block is entered (up to its first await).
Throws(e) ==
    /\ erro' = e
    /\ pendente' = Falha(e)
    /\ Log({LogEntry("erro", "error")})
    /\ cleanupRuns' = cleanupRuns + 1
    /\ epc' = "fecharPagina"
    /\ retry' = NoRetry
    /\ UNCHANGED <<loginPasso, marcos, handV, chainV, flagV>>
    /\ Quiet

\* navegador = await retryOperation(() => chromium.launch(...))
Launch ==
    /\ epc = "launch" /\ retry.pc = "op"
    /\ \/ /\ navegador' = "browser"
          /\ retry' = NoRetry
          /\ epc' = "newContext"
          /\ NoThrow /\ Quiet
          /\ UNCHANGED <<contexto, pagina, ouvinte, loginPasso, marcos,
                         chainV, flagV, logV>>
       \/ LET r == RetryAfterFailure(retry, Erro("launch", retry.calls)) IN
          IF r.pc = "op"
          THEN /\ retry' = r
               /\ NoThrow /\ Quiet
               /\ UNCHANGED <<epc, loginPasso, marcos, handV, chainV, flagV, logV>>
          ELSE Throws(r.lastError)

\* contexto = await navegador.newContext(...)
NewContext ==
    /\ epc = "newContext"
    /\ \/ /\ contexto' = "context"
          /\ epc' = "newPage"
          /\ NoThrow /\ Quiet
          /\ UNCHANGED <<retry, navegador, pagina, ouvinte, loginPasso, marcos,
                         chainV, flagV, logV>>
       \/ Throws(Erro("newContext", 0))

\* pagina = await contexto.newPage(); the two setDefault*Timeout calls
NewPage ==
    /\ epc = "newPage"
    /\ \/ /\ pagina' = "page"
          /\ epc' = "rotas"
          /\ NoThrow /\ Quiet
          /\ UNCHANGED <<retry, navegador, contexto, ouvinte, loginPasso, marcos,
                         chainV, flagV, logV>>
       \/ Throws(Erro("newPage", 0))

\* the four pagina.route(...) calls, pagina.on('console', ...), and the
\* entry of the login unit under retryOperation
Rotas ==
    /\ epc = "rotas"
    /\ \/ /\ ouvinte' = TRUE
          /\ epc' = "login"
          /\ loginPasso' = "goto"
          /\ retry' = RetryFor(RetryStart(maxRetries, Ms(retryDelay)))
          /\ NoThrow /\ Quiet
          /\ UNCHANGED <<navegador, contexto, pagina, marcos, chainV, flagV, logV>>
       \/ Throws(Erro("route", 0))

\* the login unit: goto; wait/fill/click e-mail; wait/fill/click password
ProximoPassoLogin(p) ==
    CASE p = "goto"  -> "email"
      [] p = "email" -> "senha"
      [] OTHER       -> "feito"

\* (mutant) a retry resumes at the step that failed
RecomecaNoMesmoPasso(p) == p
\* the operation given to retryOperation starts with pagina.goto
RecomecaLogin(p) == "goto"

Login ==
    /\ epc = "login" /\ retry.pc = "op"
    /\ \/ /\ IF ProximoPassoLogin(loginPasso) = "feito"
             THEN /\ epc' = "manterConectado"
                  /\ loginPasso' = "none"
                  /\ retry' = NoRetry
             ELSE /\ loginPasso' = ProximoPassoLogin(loginPasso)
                  /\ UNCHANGED <<epc, retry>>
          /\ NoThrow /\ Quiet
          /\ UNCHANGED <<marcos, handV, chainV, flagV, logV>>
       \/ LET r == RetryAfterFailure(retry, Erro(loginPasso, retry.calls)) IN
          IF r.pc = "op"
          THEN /\ retry' = r
               /\ loginPasso' = RecomecaLogin(loginPasso)
               /\ NoThrow /\ Quiet
               /\ UNCHANGED <<epc, marcos, handV, chainV, flagV, logV>>
          ELSE Throws(r.lastError)

\* try { waitForSelector("#idSIButton9"); click } catch { log }
ManterConectado ==
    /\ epc = "manterConectado"
    /\ \E apareceu \in BOOLEAN : epc' = "networkidle"
    /\ NoThrow /\ Quiet
    /\ UNCHANGED <<retry, loginPasso, marcos, handV, chainV, flagV, logV>>

\* the compose chain is entered: delay(8000), "Login realizado", sel = first
EntraCadeiaNovo ==
    /\ epc' = "seletor"
    /\ marcos' = Append(marcos, "login")
    /\ sel' = 1 /\ cand' = 0 /\ quantidade' = 0 /\ regrasFalhas' = 0

\* try { waitForLoadState('networkidle') } catch { ... }
NetworkIdle ==
    /\ epc = "networkidle"
    /\ \/ EntraCadeiaNovo
       \/ /\ epc' = "domcontentloaded"
          /\ UNCHANGED <<marcos, chainV>>
    /\ NoThrow /\ Quiet
    /\ UNCHANGED <<retry, loginPasso, handV, flagV, logV>>

\* catch { log(...); await pagina.waitForLoadState('domcontentloaded') }
DomContentLoaded ==
    /\ epc = "domcontentloaded"
    /\ \/ /\ EntraCadeiaNovo
          /\ NoThrow /\ Quiet
          /\ UNCHANGED <<retry, loginPasso, handV, flagV, logV>>
       \/ Throws(Erro("domcontentloaded", 0))

\* ------------------------------------------------ the compose chain
Min(a, b) == IF a < b THEN a ELSE b
\* (mutant) every match of the rule is considered
IndiceSemLimite(q) == q
\* const indiceMax = Math.min(quantidade, 5)
IndiceMax(q) == Min(q, MaxCandidatos)

\* (mutant) the selector loop does not stop after a click
NuncaSaiDoLaco(clicado) == FALSE
\* if (botaoClicado) break;   (head of the selector loop)
SaiDoLaco(clicado) == clicado
\* if (!botaoClicado) { ... pagina.evaluate(...) }
ScriptNovoEmail(clicado) == ~clicado
\* (mutant) an unresolved compose action is not fatal
NuncaFaltaNovoEmail(clicado) == FALSE
\* if (!botaoClicado) throw new Error(...)
FaltaNovoEmail(clicado) == ~clicado

\* the selector loop goes to its next iteration, or is left
AvancaSeletor(clicado, falhou) ==
    /\ regrasFalhas' = regrasFalhas + (IF falhou THEN 1 ELSE 0)
    /\ cand' = 0 /\ quantidade' = 0
    /\ IF SaiDoLaco(clicado) \/ sel = NumSeletoresNovoEmail
       THEN /\ sel' = 0
            /\ epc' = IF ScriptNovoEmail(clicado) THEN "jsNovo" ELSE "aposNovo"
       ELSE /\ sel' = sel + 1
            /\ epc' = "seletor"

\* the candidate loop goes to its next iteration, or is left
AvancaCandidato ==
    IF cand + 1 < IndiceMax(quantidade)
    THEN /\ cand' = cand + 1
         /\ epc' = "candidato"
         /\ UNCHANGED <<sel, quantidade, regrasFalhas>>
    ELSE AvancaSeletor(botaoClicado, TRUE)

\* waitForTimeout(2000); quantidade = await botoes.count()
Seletor ==
    /\ epc = "seletor"
    /\ \/ AvancaSeletor(botaoClicado, TRUE)         \* either call throws
       \/ \E q \in 0..MaxQuantidade :
            IF q > 0
            THEN /\ quantidade' = q /\ cand' = 0
                 /\ epc' = "candidato"
                 /\ UNCHANGED <<sel, regrasFalhas>>
            ELSE AvancaSeletor(botaoClicado, TRUE)
    /\ NoThrow /\ Quiet
    /\ UNCHANGED <<retry, loginPasso, marcos, handV, flagV, logV>>

\* isButtonPrimary = await botao.evaluate(...)
Candidato ==
    /\ epc = "candidato"
    /\ \/ /\ epc' = "visivel"                       \* the predicate holds
          /\ UNCHANGED chainV
       \/ AvancaCandidato                           \* false, or it throws
    /\ NoThrow /\ Quiet
    /\ UNCHANGED <<retry, loginPasso, marcos, handV, flagV, logV>>

\* isVisible = await botao.isVisible()
Visivel ==
    /\ epc = "visivel"
    /\ \/ /\ epc' = "preparar"
          /\ UNCHANGED chainV
       \/ AvancaCandidato                           \* false, or it throws
    /\ NoThrow /\ Quiet
    /\ UNCHANGED <<retry, loginPasso, marcos, handV, flagV, logV>>

\* scrollIntoViewIfNeeded, delay, focus, delay; entry of the click retry
Preparar ==
    /\ epc = "preparar"
    /\ \/ /\ epc' = "clicar"
          /\ retry' = RetryFor(RetryStart(cliqueRetries, Ms(cliqueDelay)))
          /\ UNCHANGED chainV
       \/ /\ AvancaCandidato
          /\ UNCHANGED retry
    /\ NoThrow /\ Quiet
    /\ UNCHANGED <<loginPasso, marcos, handV, flagV, logV>>

\* await retryOperation(() => botao.click(...), 3, 2000);
\* botaoClicado = true; break;
Clicar ==
    /\ epc = "clicar" /\ retry.pc = "op"
    /\ \/ /\ botaoClicado' = TRUE
          /\ viaNovo' = "regra"
          /\ marcos' = Append(marcos, "novoEmail")
          /\ retry' = NoRetry
          /\ AvancaSeletor(TRUE, FALSE)
          /\ UNCHANGED <<corpoPreenchido, emailEnviado, viaEnviar>>
       \/ LET r == RetryAfterFailure(retry, Erro("click", retry.calls)) IN
          /\ IF r.pc = "op"
             THEN /\ retry' = r
                  /\ UNCHANGED <<epc, chainV>>
             ELSE /\ retry' = NoRetry               \* the inner catch
                  /\ AvancaCandidato
          /\ UNCHANGED <<marcos, flagV>>
    /\ NoThrow /\ Quiet
    /\ UNCHANGED <<loginPasso, handV, logV>>

\* botaoClicado = await pagina.evaluate(...)
JsNovo ==
    /\ epc = "jsNovo"
    /\ \/ /\ \E achou \in BOOLEAN :
               /\ botaoClicado' = achou
               /\ viaNovo' = IF achou THEN "script" ELSE viaNovo
               /\ marcos' = IF achou THEN Append(marcos, "novoEmail") ELSE marcos
          /\ epc' = "aposNovo"
          /\ NoThrow /\ Quiet
          /\ UNCHANGED <<retry, loginPasso, handV, chainV, logV,
                         corpoPreenchido, emailEnviado, viaEnviar>>
       \/ Throws(Erro("evaluate", 0))

\* if (!botaoClicado) throw ...; entry of the composer wait under retry
AposNovo ==
    /\ epc = "aposNovo"
    /\ IF FaltaNovoEmail(botaoClicado)
       THEN Throws(Erro("novoEmail", 0))
       ELSE /\ epc' = "compositor"
            /\ retry' = RetryFor(RetryStart(maxRetries, Ms(retryDelay)))
            /\ regrasFalhas' = 0
            /\ NoThrow /\ Quiet
            /\ UNCHANGED <<loginPasso, marcos, handV, sel, cand, quantidade,
                           flagV, logV>>

\* ------------------------------------------------ the composer
\* await retryOperation(() => pagina.waitForSelector('[aria-label="Para"]'))
Compositor ==
    /\ epc = "compositor" /\ retry.pc = "op"
    /\ \/ /\ marcos' = Append(marcos, "compositor")
          /\ retry' = NoRetry
          /\ epc' = "para"
          /\ NoThrow /\ Quiet
          /\ UNCHANGED <<loginPasso, handV, chainV, flagV, logV>>
       \/ LET r == RetryAfterFailure(retry, Erro("compositor", retry.calls)) IN
          IF r.pc = "op"
          THEN /\ retry' = r
               /\ NoThrow /\ Quiet
               /\ UNCHANGED <<epc, loginPasso, marcos, handV, chainV, flagV, logV>>
          ELSE Throws(r.lastError)

\* (mutant) the length of cc is not looked at
TemCcSemTamanho(cc) == cc.t = "array"
\* if (cc && cc.length > 0)
TemCc(cc) == cc.t = "array" /\ Len(cc.a) > 0

\* campoPara.click(); delay; campoPara.fill(to.join("; ")); delay
Para ==
    /\ epc = "para"
    /\ \/ /\ marcos' = Append(marcos, "para")
          /\ epc' = IF TemCc(args.cc) THEN "cc" ELSE "assunto"
          /\ NoThrow /\ Quiet
          /\ UNCHANGED <<retry, loginPasso, handV, chainV, flagV, logV>>
       \/ Throws(Erro("para", 0))

\* try { reveal and fill Cc } catch (error) { log(..., 'warn') }
Cc ==
    /\ epc = "cc"
    /\ \/ UNCHANGED logV
       \/ Log({LogEntry("ccWarn", "warn")})
    /\ epc' = "assunto"
    /\ NoThrow /\ Quiet
    /\ UNCHANGED <<retry, loginPasso, marcos, handV, chainV, flagV>>

\* entry of the send retry: the first pass starts at the first selector
IniciaEnvio ==
    /\ epc' = "enviar"
    /\ sel' = 1 /\ cand' = 0 /\ quantidade' = 0 /\ regrasFalhas' = 0
    /\ retry' = RetryFor(RetryStart(enviarRetries, Ms(enviarDelay)))

\* campoAssunto.click(); delay; campoAssunto.fill(subject); delay; if (body)
Assunto ==
    /\ epc = "assunto"
    /\ \/ /\ marcos' = Append(marcos, "assunto")
          /\ IF args.body # ""
             THEN /\ epc' = "corpo"
                  /\ sel' = 1
                  /\ UNCHANGED <<retry, cand, quantidade, regrasFalhas>>
             ELSE IniciaEnvio
          /\ NoThrow /\ Quiet
          /\ UNCHANGED <<loginPasso, handV, flagV, logV>>
       \/ Throws(Erro("assunto", 0))

\* one iteration of the loop over seletoresCorpo
Corpo ==
    /\ epc = "corpo"
    /\ \/ /\ corpoPreenchido' = TRUE                \* filled; break
          /\ IniciaEnvio
          /\ UNCHANGED logV
       \/ /\ UNCHANGED corpoPreenchido              \* no match, or a throw
          /\ IF sel < NumSeletoresCorpo
             THEN /\ sel' = sel + 1
                  /\ UNCHANGED <<epc, retry, cand, quantidade, regrasFalhas, logV>>
             ELSE /\ Log({LogEntry("corpoWarn", "warn")})
                  /\ IniciaEnvio
    /\ NoThrow /\ Quiet
    /\ UNCHANGED <<loginPasso, marcos, handV, botaoClicado, emailEnviado,
                   viaNovo, viaEnviar>>

\* ------------------------------------------------ the send chain
\* (mutant) the scripted search for the send control always runs
SempreScriptEnviar(enviado) == TRUE
\* if (!emailEnviado) { ... pagina.evaluate(...) }
ScriptEnviar(enviado) == ~enviado
\* (mutant) the pass throws whether or not the control was clicked
SempreFaltaEnviar(enviado) == TRUE
\* if (!emailEnviado) throw new Error(...)
FaltaEnviar(enviado) == ~enviado

\* the pass threw: retryOperation catches, then starts the next pass or gives up
FalhaDoPasse(m) ==
    LET r == RetryAfterFailure(retry, Erro(m, retry.calls)) IN
    IF r.pc = "op"
    THEN /\ retry' = r
         /\ epc' = "enviar"
         /\ sel' = 1 /\ regrasFalhas' = 0
         /\ NoThrow /\ Quiet
         /\ UNCHANGED <<loginPasso, marcos, handV, cand, quantidade, flagV, logV>>
    ELSE Throws(r.lastError)

\* one iteration of the loop over seletoresEnviar
Enviar ==
    /\ epc = "enviar" /\ retry.pc = "op"
    /\ \/ /\ emailEnviado' = TRUE                   \* clicked; break
          /\ viaEnviar' = "regra"
          /\ marcos' = Append(marcos, "enviar")
          /\ epc' = IF ScriptEnviar(TRUE) THEN "jsEnviar" ELSE "fimPasse"
          /\ UNCHANGED <<chainV, botaoClicado, corpoPreenchido, viaNovo>>
       \/ /\ regrasFalhas' = regrasFalhas + 1       \* no match, or a throw
          /\ IF sel < NumSeletoresEnviar
             THEN /\ sel' = sel + 1
                  /\ UNCHANGED epc
             ELSE /\ epc' = IF ScriptEnviar(emailEnviado)
                            THEN "jsEnviar" ELSE "fimPasse"
                  /\ UNCHANGED sel
          /\ UNCHANGED <<cand, quantidade, marcos, flagV>>
    /\ NoThrow /\ Quiet
    /\ UNCHANGED <<retry, loginPasso, handV, logV>>

\* botaoEncontrado = await pagina.evaluate(...); if (...) emailEnviado = true
JsEnviar ==
    /\ epc = "jsEnviar" /\ retry.pc = "op"
    /\ \/ /\ \E achou \in BOOLEAN :
               /\ emailEnviado' = (emailEnviado \/ achou)
               /\ viaEnviar' = IF achou THEN "script" ELSE viaEnviar
               /\ marcos' = IF achou THEN Append(marcos, "enviar") ELSE marcos
          /\ epc' = "fimPasse"
          /\ NoThrow /\ Quiet
          /\ UNCHANGED <<retry, loginPasso, handV, chainV, logV,
                         botaoClicado, corpoPreenchido, viaNovo>>
       \/ FalhaDoPasse("evaluate")

\* if (!emailEnviado) throw ...; otherwise the pass, and the retry, return
FimPasse ==
    /\ epc = "fimPasse" /\ retry.pc = "op"
    /\ IF FaltaEnviar(emailEnviado)
       THEN FalhaDoPasse("enviar")
       ELSE /\ retry' = NoRetry
            /\ epc' = "confirmar"
            /\ sel' = 0 /\ regrasFalhas' = 0
            /\ NoThrow /\ Quiet
            /\ UNCHANGED <<loginPasso, marcos, handV, cand, quantidade,
                           flagV, logV>>

\* await delay(12000); the summary; return { success: true, ... };
\* the finally block is entered (up to its first await)
Confirmar ==
    /\ epc = "confirmar"
    /\ marcos' = Append(marcos, "confirmacao")
    /\ Log({LogEntry("sucesso", "info")})
    /\ pendente' = Success(args.debug)
    /\ cleanupRuns' = cleanupRuns + 1
    /\ epc' = "fecharPagina"
    /\ Quiet
    /\ UNCHANGED <<retry, erro, loginPasso, handV, chainV, flagV>>

\* ------------------------------------------------ the finally block
\* The three closes share one try: a close that throws goes to the catch,
\* which is after the last close.
DepoisDeFalhaAoFechar(proximo) == "gc"
\* (mutant) the close error is rethrown and replaces the completion
RelancaErroAoFechar(completion, closeError) == Falha(closeError)
\* catch (closeError) { log(..., 'warn') }: the completion is left as it was
AposErroAoFechar(completion, closeError) == completion

Fecha(passo, handle, nome, proximo) ==
    /\ epc = passo
    /\ IF handle = Null
       THEN /\ epc' = proximo
            /\ UNCHANGED <<closeCalls, logV, pendente>>
       ELSE \/ /\ closeCalls' = Append(closeCalls, [h |-> nome, ok |-> TRUE])
               /\ epc' = proximo
               /\ UNCHANGED <<logV, pendente>>
            \/ /\ closeCalls' = Append(closeCalls, [h |-> nome, ok |-> FALSE])
               /\ Log({LogEntry("closeWarn", "warn")})
               /\ epc' = DepoisDeFalhaAoFechar(proximo)
               /\ pendente' = AposErroAoFechar(pendente, Erro("close", 0))
    /\ UNCHANGED <<retryV, httpV, args, loginPasso, marcos, handV, chainV,
                   flagV, erro, resultado, cleanupRuns, opsNoFecho, extV>>

\* if (pagina) { await pagina.close(); ... }
FecharPagina == Fecha("fecharPagina", pagina, "pagina", "fecharContexto")
\* if (contexto) { await contexto.close(); ... }
FecharContexto == Fecha("fecharContexto", contexto, "contexto", "fecharNavegador")
\* if (navegador) { await navegador.close(); ... }
FecharNavegador == Fecha("fecharNavegador", navegador, "navegador", "gc")

\* global.gc, logMemoryUsage; the completion reaches the caller
Gc ==
    /\ epc = "gc"
    /\ resultado' = pendente
    /\ epc' = "done"
    /\ UNCHANGED <<retryV, httpV, args, loginPasso, marcos, handV, chainV,
                   flagV, logV, erro, pendente, cleanupRuns, closeCalls,
                   opsNoFecho, extV>>

\* pagina.on('console', msg => { if (msg.type() === 'error') log(..., 'warn') })
PaginaFechada ==
    \E i \in 1..Len(closeCalls) : closeCalls[i].h = "pagina" /\ closeCalls[i].ok

\* (mutant) the listener throws into the sequence
ConsoleErrorLanca(e) == Erro("console", 0)
\* the callback returns nothing and sets nothing: the error seen by the
\* catch block is what it was
AposConsoleError(e) == e
\* (mutant) the listener captures the page when an error is reported
OuvinteCapturaPagina == {"screenshot"}
\* the operations the listener issues on the page: msg.type() and msg.text()
\* read the message, log() writes the log
OpsDoOuvinte == {}

ConsoleError ==
    /\ ouvinte /\ ~PaginaFechada
    /\ Log({LogEntry("consoleError", "warn")})
    /\ opsNoFecho' = OpsNoFecho(OpsDoOuvinte)
    /\ erro' = AposConsoleError(erro)
    /\ UNCHANGED <<retryV, httpV, handV, chainV, flagV, callV, pendente,
                   resultado, cleanupRuns, closeCalls, extV>>

\* the process after app.listen, before any signal or failure
InitProc ==
    /\ proc = "running" /\ exitCode = -1 /\ causaSaida = "none"
    /\ servidor = "listening" /\ closeCbs = 0 /\ timers = 0
    /\ emVoo = 0 /\ sinais = <<>> /\ fatais = {}

\* the locals of a call of enviarEmail that has not started
\* (null is written as an object of no kind, created for no request)
Nenhum == [k |-> "null", de |-> 0]
NoLocais ==
    [navegador |-> Nenhum, contexto |-> Nenhum, pagina |-> Nenhum, logs |-> {}]
\* a request that has not arrived
NoPedido == [pc |-> "idle", valido |-> FALSE, debug |-> FALSE, tipo |-> "none",
             status |-> 0, logs |-> {}, falhou |-> FALSE]

InitConc ==
    /\ pedidos = [r \in 1..MaxPedidos |-> NoPedido]
    /\ locais = [f \in 1..MaxPedidos |-> NoLocais]
    /\ abertos = {} /\ chamadas = {}

Init ==
    /\ retry = NoRetry /\ rOutcome = [tipo |-> "none", valor |-> 0, erro |-> NoError]
    /\ InitMain /\ InitProc /\ InitConc

Next ==
    \/ PostSendEmail \/ Responder200 \/ Responder500
    \/ Launch \/ NewContext \/ NewPage \/ Rotas \/ Login
    \/ ManterConectado \/ NetworkIdle \/ DomContentLoaded
    \/ Seletor \/ Candidato \/ Visivel \/ Preparar \/ Clicar \/ JsNovo \/ AposNovo
    \/ Compositor \/ Para \/ Cc \/ Assunto \/ Corpo
    \/ Enviar \/ JsEnviar \/ FimPasse \/ Confirmar
    \/ FecharPagina \/ FecharContexto \/ FecharNavegador \/ Gc
    \/ ConsoleError

Spec == Init /\ [][Next]_vars

\* Every step of a request that has arrived: each awaited operation
\* returns or times out, and the continuation then runs.
Andamento ==
    \/ Responder200 \/ Responder500
    \/ Launch \/ NewContext \/ NewPage \/ Rotas \/ Login
    \/ ManterConectado \/ NetworkIdle \/ DomContentLoaded
    \/ Seletor \/ Candidato \/ Visivel \/ Preparar \/ Clicar \/ JsNovo \/ AposNovo
    \/ Compositor \/ Para \/ Cc \/ Assunto \/ Corpo
    \/ Enviar \/ JsEnviar \/ FimPasse \/ Confirmar
    \/ FecharPagina \/ FecharContexto \/ FecharNavegador \/ Gc

SpecJusto == Init /\ [][Next]_vars /\ WF_vars(Andamento)

\* ------------------------------------------------ stand-alone retry spec
RetryDelays == {Ms(2000), Ms(3000), Ms(retryDelay), Ms(1)}
ErrorKinds == {"timeout", "crash"}

NoOutcome == [tipo |-> "none", valor |-> 0, erro |-> NoError]

InitRetry ==
    /\ \E n \in 1..MaxN, d \in RetryDelays : retry = RetryStart(n, d)
    /\ rOutcome = NoOutcome
    /\ InitMain /\ InitProc /\ InitConc

\* the loop header
RetryLoop ==
    /\ retry.pc = "for"
    /\ retry' = RetryFor(retry)
    /\ rOutcome' = IF RetryLooping(retry) THEN rOutcome
                   ELSE [tipo |-> "throw", valor |-> 0, erro |-> retry.lastError]
    /\ UNCHANGED <<mainV, extV>>

\* the operation resolves: its value is returned at once
RetryOpReturns ==
    /\ retry.pc = "op"
    /\ retry' = RetryReturn(retry)
    /\ rOutcome' = [tipo |-> "return", valor |-> retry.calls, erro |-> NoError]
    /\ UNCHANGED <<mainV, extV>>

\* the operation rejects with an error of any kind
RetryOpThrows ==
    /\ retry.pc = "op"
    /\ \E k \in ErrorKinds : retry' = RetryCatch(retry, Erro(k, retry.calls))
    /\ UNCHANGED <<rOutcome, mainV, extV>>

NextRetry == RetryLoop \/ RetryOpReturns \/ RetryOpThrows

SpecRetry == InitRetry /\ [][NextRetry]_vars

\* ------------------------------------------------ the process
\* The server with its signal handlers and process-level failure handlers.
\* Requests are seen from the listener's side only: a connection that is
\* open with a request in flight.
Sinais == {"SIGTERM", "SIGINT"}

\* process.exit(code), called by `causa`
Exit(code, causa) ==
    /\ proc' = "exited" /\ exitCode' = code /\ causaSaida' = causa

\* a connection is accepted while the listener listens
PedidoEntra ==
    /\ proc = "running" /\ servidor = "listening" /\ emVoo < MaxEmVoo
    /\ emVoo' = emVoo + 1
    /\ UNCHANGED <<proc, exitCode, causaSaida, servidor, closeCbs, timers,
                   sinais, fatais>>
    /\ UNCHANGED <<retryV, mainV, concV>>

\* a request in flight is answered and its connection ends
PedidoSai ==
    /\ proc = "running" /\ emVoo > 0
    /\ emVoo' = emVoo - 1
    /\ UNCHANGED <<proc, exitCode, causaSaida, servidor, closeCbs, timers,
                   sinais, fatais>>
    /\ UNCHANGED <<retryV, mainV, concV>>

\* (mutant) no timer is armed
NaoArmaTimer(t) == t
\* setTimeout(() => { ...; process.exit(1) }, 30000)
ArmaTimer(t) == t + 1

\* gracefulShutdown(signal): server.close(callback) and the 30-second timer
GracefulShutdown ==
    /\ proc = "running" /\ Len(sinais) < MaxSinais
    /\ \E sg \in Sinais : sinais' = Append(sinais, sg)
    /\ servidor' = IF servidor = "listening" THEN "closing" ELSE servidor
    /\ closeCbs' = closeCbs + 1
    /\ timers' = ArmaTimer(timers)
    /\ UNCHANGED <<proc, exitCode, causaSaida, emVoo, fatais>>
    /\ UNCHANGED <<retryV, mainV, concV>>

\* the listener has finished closing (no connection is left): 'close' is
\* emitted and the first registered callback calls process.exit(0)
ListenerFechou ==
    /\ proc = "running" /\ servidor = "closing" /\ emVoo = 0 /\ closeCbs > 0
    /\ servidor' = "closed"
    /\ Exit(0, "closeCallback")
    /\ UNCHANGED <<closeCbs, timers, emVoo, sinais, fatais>>
    /\ UNCHANGED <<retryV, mainV, concV>>

\* a 30-second timer fires: logger.error, process.exit(1)
TimerDispara ==
    /\ proc = "running" /\ timers > 0
    /\ timers' = timers - 1
    /\ Exit(1, "timer")
    /\ UNCHANGED <<servidor, closeCbs, emVoo, sinais, fatais>>
    /\ UNCHANGED <<retryV, mainV, concV>>

\* process.on('uncaughtException'): logger.fatal, process.exit(1)
UncaughtException ==
    /\ proc = "running"
    /\ fatais' = fatais \cup {"Uncaught Exception"}
    /\ Exit(1, "uncaughtException")
    /\ UNCHANGED <<servidor, closeCbs, timers, emVoo, sinais>>
    /\ UNCHANGED <<retryV, mainV, concV>>

\* process.on('unhandledRejection'): logger.fatal, and the handler returns
UnhandledRejection ==
    /\ proc = "running"
    /\ fatais' = fatais \cup {"Unhandled Rejection"}
    /\ UNCHANGED <<proc, exitCode, causaSaida, servidor, closeCbs, timers,
                   emVoo, sinais>>
    /\ UNCHANGED <<retryV, mainV, concV>>

NextProc ==
    \/ PedidoEntra \/ PedidoSai \/ GracefulShutdown
    \/ ListenerFechou \/ TimerDispara
    \/ UncaughtException \/ UnhandledRejection

\* An armed timer fires while the process runs, and a listener with no
\* connection left finishes closing; requests, signals and failures come
\* from outside and are not forced.
SpecProc ==
    /\ Init /\ [][NextProc]_vars
    /\ WF_vars(TimerDispara) /\ WF_vars(ListenerFechou)

\* ------------------------------------------------ concurrent requests
\* Several runs of the handler interleaved at their awaits. Each run is the
\* handler and its call of enviarEmail; the steps between the acquisition
\* of the page and the finally block (login to confirmation) are one step
\* here, the detail being in Spec.
Pedidos == 1..MaxPedidos

\* (mutant) logs, navegador, contexto, pagina declared once for the module
QuadroUnico(r) == 1
\* const logs = []; let navegador = null; let contexto = null; let pagina =
\* null; inside enviarEmail: every call has its own
Quadro(r) == r

\* (mutant) a launch waits while a browser is open
AdmiteUmPorVez(vivos) == vivos = 0
\* chromium.launch is invoked whatever the number of open browsers
Admite(vivos) == TRUE

\* a browser-side object, created for request r
Objeto(k, r) == [k |-> k, de |-> r]
Vivos == Cardinality({o \in abertos : o.k = "browser"})
Chamada(r, h, op) == [por |-> r, h |-> h, op |-> op]

\* log(message, level) inside the call of request r
LogC(r, m, ls) ==
    [ls EXCEPT ![Quadro(r)].logs =
        IF Keeps(pedidos[r].debug) THEN @ \cup {[de |-> r, msg |-> m]} ELSE @]

\* the handler up to the first await of enviarEmail
Chega(r) ==
    /\ pedidos[r].pc = "idle"
    /\ \E v \in BOOLEAN, d \in BOOLEAN :
        IF ~v
        THEN /\ ~d
             /\ pedidos' = [pedidos EXCEPT ![r].pc = "respondida",
                                            ![r].status = 400]
             /\ UNCHANGED locais
        ELSE /\ pedidos' = [pedidos EXCEPT ![r].pc = "launch",
                                            ![r].valido = TRUE, ![r].debug = d]
             /\ locais' = [locais EXCEPT ![Quadro(r)] =
                     [NoLocais EXCEPT !.logs =
                         IF Keeps(d) THEN {[de |-> r, msg |-> "inicio"]} ELSE {}]]
    /\ UNCHANGED <<abertos, chamadas>>
    /\ UNCHANGED <<retryV, mainV, procV>>

\* an error reaches the catch block of the call of r; finally is entered
ThrowsC(r, ls) ==
    /\ pedidos' = [pedidos EXCEPT ![r].pc = "fecharPagina",
                                   ![r].tipo = "throw", ![r].falhou = TRUE]
    /\ locais' = LogC(r, "erro", ls)

\* one acquisition: `campo` = await <creation of an object of kind k>
Adquire(r, passo, usado, campo, k, proximo) ==
    /\ pedidos[r].pc = passo
    /\ chamadas' = IF usado = Nenhum THEN chamadas
                   ELSE chamadas \cup {Chamada(r, usado, k)}
    /\ \/ /\ locais' = [locais EXCEPT ![Quadro(r)][campo] = Objeto(k, r)]
          /\ abertos' = abertos \cup {Objeto(k, r)}
          /\ pedidos' = [pedidos EXCEPT ![r].pc = proximo]
       \/ /\ ThrowsC(r, locais)
          /\ UNCHANGED abertos
    /\ UNCHANGED <<retryV, mainV, procV>>

Lanca(r) ==
    /\ Admite(Vivos)
    /\ Adquire(r, "launch", Nenhum, "navegador", "browser", "newContext")
NovoContexto(r) ==
    Adquire(r, "newContext", locais[Quadro(r)].navegador, "contexto",
            "context", "newPage")
NovaPagina(r) ==
    Adquire(r, "newPage", locais[Quadro(r)].contexto, "pagina", "page",
            "trabalho")

\* everything from the routes to the confirmation delay, on the page
Trabalha(r) ==
    /\ pedidos[r].pc = "trabalho"
    /\ chamadas' = chamadas \cup {Chamada(r, locais[Quadro(r)].pagina, "use")}
    /\ \/ /\ pedidos' = [pedidos EXCEPT ![r].pc = "fecharPagina",
                                          ![r].tipo = "return"]
          /\ locais' = LogC(r, "sucesso", locais)
       \/ ThrowsC(r, locais)
    /\ UNCHANGED abertos
    /\ UNCHANGED <<retryV, mainV, procV>>

\* if (h) await h.close(), inside the single try of the finally block
FechaC(r, passo, campo, proximo) ==
    LET h == locais[Quadro(r)][campo] IN
    /\ pedidos[r].pc = passo
    /\ IF h = Nenhum
       THEN /\ pedidos' = [pedidos EXCEPT ![r].pc = proximo]
            /\ UNCHANGED <<locais, abertos, chamadas>>
       ELSE /\ chamadas' = chamadas \cup {Chamada(r, h, "close")}
            /\ \/ /\ abertos' = abertos \ {h}
                  /\ pedidos' = [pedidos EXCEPT ![r].pc = proximo]
                  /\ UNCHANGED locais
               \/ /\ pedidos' = [pedidos EXCEPT
                          ![r].pc = DepoisDeFalhaAoFechar(proximo)]
                  /\ locais' = LogC(r, "closeWarn", locais)
                  /\ UNCHANGED abertos
    /\ UNCHANGED <<retryV, mainV, procV>>

FechaPaginaC(r) == FechaC(r, "fecharPagina", "pagina", "fecharContexto")
FechaContextoC(r) == FechaC(r, "fecharContexto", "contexto", "fecharNavegador")
FechaNavegadorC(r) == FechaC(r, "fecharNavegador", "navegador", "gc")

\* the completion reaches the handler, which answers 200 or 500
Responde(r) ==
    /\ pedidos[r].pc = "gc"
    /\ pedidos' = [pedidos EXCEPT
           ![r].pc = "respondida",
           ![r].status = IF pedidos[r].tipo = "return" THEN 200 ELSE 500,
           ![r].logs = IF pedidos[r].tipo = "return" /\ pedidos[r].debug
                       THEN locais[Quadro(r)].logs ELSE {}]
    /\ UNCHANGED <<locais, abertos, chamadas>>
    /\ UNCHANGED <<retryV, mainV, procV>>

NextConc ==
    \E r \in Pedidos :
        \/ Chega(r) \/ Lanca(r) \/ NovoContexto(r) \/ NovaPagina(r)
        \/ Trabalha(r)
        \/ FechaPaginaC(r) \/ FechaContextoC(r) \/ FechaNavegadorC(r)
        \/ Responde(r)

SpecConc == Init /\ [][NextConc]_vars

\* ================================================================ claims
\* the handles acquired, in the order the cleanup visits them
Adquiridos ==
    (IF pagina # Null THEN <<"pagina">> ELSE <<>>)
    \o (IF contexto # Null THEN <<"contexto">> ELSE <<>>)
    \o (IF navegador # Null THEN <<"navegador">> ELSE <<>>)
\* the handles close() was called on, in call order
Chamados == [i \in 1..Len(closeCalls) |-> closeCalls[i].h]
AlgumCloseFalhou == \E i \in 1..Len(closeCalls) : ~closeCalls[i].ok
EnvioCompleto == Len(marcos) > 0 /\ marcos[Len(marcos)] = "confirmacao"

\* C1: on every path of enviarEmail the cleanup block has run exactly once
\* when the completion reaches the caller, and it has called close on the
\* acquired handles, page then context then browser, and on no other.
C1_CleanupFechaOsAdquiridos ==
    /\ resultado.tipo # "none" => epc = "done"
    /\ epc = "done" => cleanupRuns = 1 /\ Chamados = Adquiridos

\* What holds of the cleanup on every path: it runs exactly once before the
\* completion is delivered, the close calls are in the order page, context,
\* browser with no handle closed twice, and no call is made on a handle
\* that was never acquired.
CleanupUmaVezEmOrdem ==
    /\ resultado.tipo # "none" => epc = "done" /\ cleanupRuns = 1
    /\ cleanupRuns <= 1
    /\ \E n \in 0..Len(Adquiridos) : Chamados = SubSeq(Adquiridos, 1, n)

\* C2: when enviarEmail finishes, close has been attempted on every
\* acquired handle, also when an earlier close failed.
C2_TodosOsAdquiridosTentados ==
    epc = "done" =>
        \A i \in 1..Len(Adquiridos) :
            \E j \in 1..Len(closeCalls) : closeCalls[j].h = Adquiridos[i]

\* C3: a close failure is logged as a warning and does not change the
\* completion of enviarEmail: a completed send returns its success result,
\* a failed one throws 'Falha no envio do email: <original message>'.
C3_FalhaAoFecharNaoMudaResultado ==
    /\ AlgumCloseFalhou => LogEntry("closeWarn", "warn") \in emitidos
    /\ epc = "done" =>
          IF EnvioCompleto
          THEN resultado = Success(args.debug) /\ erro = NoError
          ELSE /\ erro # NoError
               /\ resultado.tipo = "throw"
               /\ resultado.prefixo = "Falha no envio do email"
               /\ resultado.causa = erro.msg

C3_Witness ==
    /\ epc = "done" /\ AlgumCloseFalhou
    /\ resultado.tipo = "return" /\ resultado.success

\* C4: retryOperation with maxRetries = N >= 1 invokes the operation at
\* most N times, returns the value of the first invocation that succeeds
\* (all earlier ones having failed), and after N failures throws the error
\* of the N-th invocation.
C4_RetryTentativas ==
    /\ retry.calls <= retry.maxRetries
    /\ retry.pc = "returned" =>
          /\ rOutcome.tipo = "return"
          /\ rOutcome.valor = retry.calls
          /\ Len(retry.raised) = retry.calls - 1
    /\ retry.pc = "thrown" =>
          /\ rOutcome.tipo = "throw"
          /\ retry.calls = retry.maxRetries
          /\ Len(retry.raised) = retry.maxRetries
          /\ rOutcome.erro = retry.raised[retry.maxRetries]
          /\ rOutcome.erro.call = retry.maxRetries
    /\ rOutcome.tipo # "none" => retry.pc \in {"returned", "thrown"}

C4_Witness ==
    /\ retry.pc = "thrown" /\ retry.maxRetries = 3
    /\ retry.raised[1].msg # retry.raised[3].msg

\* C5: the first wait equals the initial delay, each later wait is 1.5
\* times the one before, there is exactly one wait after each failure that
\* has attempts remaining and none after the last, and a failure of any
\* kind is retried while attempts remain.
C5_RetryEsperas ==
    LET w == retry.waits
        falhas == Len(retry.raised)
    IN  /\ Len(w) >= 1 => MsEq(w[1], retry.initialDelay)
        /\ \A k \in 2..Len(w) : w[k].n * w[k-1].d * 2 = w[k-1].n * 3 * w[k].d
        /\ Len(w) = Min(falhas, retry.maxRetries - 1)
        /\ retry.pc = "thrown" => falhas = retry.maxRetries
        /\ (retry.pc = "op" /\ retry.maxRetries > 0) => retry.calls = falhas + 1

C5_Witness ==
    /\ retry.pc = "thrown" /\ retry.maxRetries = 4 /\ Len(retry.waits) = 3
    /\ retry.raised[1].msg = "timeout" /\ retry.raised[2].msg = "crash"

\* C6: the compose chain visits its rules in declared order, candidates of
\* a rule in index order, clicks a candidate only after its predicate and
\* its visibility check, and once a click has succeeded it evaluates no
\* further candidate and no further rule.
CadeiaNovoPcs == {"seletor", "candidato", "visivel", "preparar", "clicar"}

C6_Passo ==
    /\ epc' \in CadeiaNovoPcs =>
          IF epc \in CadeiaNovoPcs
          THEN \/ sel' = sel /\ cand' = cand
               \/ sel' = sel /\ cand' = cand + 1 /\ epc' = "candidato"
               \/ sel' = sel + 1 /\ cand' = 0 /\ epc' = "seletor"
          ELSE sel' = 1 /\ cand' = 0 /\ epc' = "seletor"
    /\ (epc' = "visivel" /\ epc # "visivel") => epc = "candidato"
    /\ (epc' = "preparar" /\ epc # "preparar") => epc = "visivel"
    /\ (epc' = "clicar" /\ epc # "clicar") => epc = "preparar"
    /\ (botaoClicado' /\ ~botaoClicado /\ viaNovo' = "regra") =>
          epc = "clicar" /\ epc' \notin CadeiaNovoPcs
    /\ (epc \in CadeiaNovoPcs /\ epc' \in CadeiaNovoPcs) => ~botaoClicado'

C6_CadeiaNovoEmailPara ==
    /\ [](botaoClicado => epc \notin CadeiaNovoPcs)
    /\ [][C6_Passo]_vars

C6_Witness ==
    /\ epc = "aposNovo" /\ viaNovo = "regra" /\ botaoClicado
    /\ regrasFalhas >= 1 /\ regrasFalhas + 1 < NumSeletoresNovoEmail

\* C7: for compose and for send, the scripted search runs only when every
\* structural rule of the current pass has failed and nothing has been
\* clicked, and a match by the scripted search counts as success.
C7_ScriptSoAposTodasAsRegras ==
    /\ epc = "jsNovo" =>
          ~botaoClicado /\ regrasFalhas = NumSeletoresNovoEmail
    /\ epc = "jsEnviar" =>
          ~emailEnviado /\ regrasFalhas = NumSeletoresEnviar
    /\ viaNovo = "regra" => botaoClicado
    /\ viaNovo = "script" => botaoClicado /\ erro.msg # "novoEmail"
    /\ viaEnviar = "script" => emailEnviado /\ erro = NoError
    /\ (viaEnviar = "script" /\ epc = "done") => resultado.success

C7_Witness ==
    /\ epc = "done" /\ viaNovo = "script" /\ viaEnviar = "script"
    /\ resultado.success

\* C8: a body that violates the schema is answered with 400 without
\* enviarEmail being called (so without chromium.launch being invoked), and
\* enviarEmail is only ever running for a body the schema accepts.
C8_InvalidoNuncaChegaAoNavegador ==
    /\ resposta.status = 400 =>
          /\ ~SchemaOk(reqBody)
          /\ epc = "notCalled" /\ navegador = Null /\ retry = NoRetry
    /\ epc # "notCalled" => SchemaOk(reqBody) /\ parseResult.success
    /\ (hpc # "idle" /\ ~SchemaOk(reqBody)) => resposta.status = 400

C8_Witness ==
    /\ resposta.status = 400
    /\ reqBody.subject = Undef
    /\ SchemaOk([reqBody EXCEPT !.subject = Str("Hi")])

\* C9: the `to` passed to enviarEmail is a list with at least one address.
C9_ToListaNaoVazia ==
    epc # "notCalled" => args.to.t = "array" /\ Len(args.to.a) >= 1

\* C10: success is reported only after login, compose activation, composer
\* surface, To, Subject, send activation and the confirmation delay, in
\* this order; when a mandatory step failed the call throws and the
\* response is 500.
MarcosCompletos ==
    <<"login", "novoEmail", "compositor", "para", "assunto", "enviar",
      "confirmacao">>

C10_SucessoSoAposTodosOsPassos ==
    /\ (pendente.success \/ resultado.success \/ resposta.success
        \/ resposta.status = 200) => marcos = MarcosCompletos /\ erro = NoError
    /\ (epc = "done" /\ marcos # MarcosCompletos) =>
          erro # NoError /\ resultado.tipo = "throw"
    /\ (hpc = "respondida" /\ erro # NoError) =>
          resposta.status = 500 /\ ~resposta.success

C10_Witness ==
    /\ resposta.status = 200 /\ resposta.success
    /\ viaNovo = "regra" /\ viaEnviar = "regra"

\* C11: when no structural rule and no scripted search resolved the compose
\* action, the response is 500 with a message naming the compose action, no
\* later step (composer, To, Cc, Subject, body, send) has run, and close has
\* been attempted on every handle of the session before the response.
NovoEmailNaoResolvido == erro.msg = "novoEmail"

C11_SemPassoPosterior ==
    NovoEmailNaoResolvido =>
        /\ ~botaoClicado /\ viaNovo = "none"
        /\ marcos = <<"login">>
        /\ ~corpoPreenchido /\ ~emailEnviado
        /\ epc \in {"fecharPagina", "fecharContexto", "fecharNavegador",
                    "gc", "done"}
        /\ hpc = "respondida" =>
              /\ resposta.status = 500 /\ ~resposta.success
              /\ resposta.message = <<"Falha no envio do email", "novoEmail">>

C11_NovoEmailNaoResolvidoDa500 ==
    /\ C11_SemPassoPosterior
    /\ (NovoEmailNaoResolvido /\ hpc = "respondida") =>
          \A i \in 1..Len(Adquiridos) :
              \E j \in 1..Len(closeCalls) : closeCalls[j].h = Adquiridos[i]

\* C12: a non-empty body that no body rule could fill does not stop the
\* send: the body loop is left for the send step only, the warning is
\* emitted, a completed send answers success: true, and with debug set the
\* logs of the response hold the warning.
CorpoWarn == LogEntry("corpoWarn", "warn")
CorpoNaoPreenchido ==
    /\ args.body # "" /\ ~corpoPreenchido
    /\ \E i \in 1..Len(marcos) : marcos[i] = "assunto"
    /\ epc # "corpo"

C12_Passo ==
    /\ epc = "corpo" => epc' \in {"corpo", "enviar"}
    /\ (epc = "corpo" /\ epc' = "enviar" /\ ~corpoPreenchido') =>
          CorpoWarn \in emitidos'

C12_CorpoNaoPreenchidoNaoAborta ==
    /\ [](CorpoNaoPreenchido =>
            /\ CorpoWarn \in emitidos
            /\ args.debug => CorpoWarn \in logs
            /\ erro.msg \notin {"corpo"}
            /\ (epc = "done" /\ EnvioCompleto) => resultado.success
            /\ resposta.status = 200 =>
                  /\ resposta.success
                  /\ args.debug => CorpoWarn \in resposta.logs)
    /\ [](CorpoWarn \in emitidos => args.body # "" /\ ~corpoPreenchido)
    /\ [][C12_Passo]_vars

C12_Witness ==
    /\ resposta.status = 200 /\ resposta.success /\ args.debug
    /\ CorpoNaoPreenchido /\ CorpoWarn \in resposta.logs

\* C13: the Cc step is entered only when cc is a non-empty list; whether it
\* fills the field or fails, it goes on to Subject with nothing changed but
\* the log, where a failure leaves one warning; it never throws.
CcWarn == LogEntry("ccWarn", "warn")
CcPresente == args.cc.t = "array" /\ Len(args.cc.a) >= 1

C13_Passo ==
    (epc = "cc" /\ epc' # "cc") =>
        /\ epc' = "assunto"
        /\ UNCHANGED <<retryV, httpV, handV, chainV, flagV, endV, args,
                       loginPasso, marcos>>
        /\ (emitidos' \ emitidos) \subseteq {CcWarn}
        /\ (logs' \ logs) \subseteq {CcWarn}

C13_FalhaNoCcNaoAborta ==
    /\ [](epc = "cc" => CcPresente)
    /\ [](CcWarn \in emitidos => CcPresente /\ erro.msg # "cc")
    /\ [][C13_Passo]_vars

C13_Witness ==
    /\ CcWarn \in emitidos /\ resposta.status = 200
    /\ marcos = MarcosCompletos

\* C16: the buffer holds entries only when debug is set, and then every
\* message emitted; the result and the response carry log lines only when
\* debug is set; every message reaches the process log whatever debug is.
C16_LogsSoComDebug ==
    /\ ~args.debug => logs = {}
    /\ args.debug => logs = emitidos
    /\ epc # "notCalled" => LogEntry("inicio", "info") \in emitidos
    /\ epc = "done" =>
          \/ LogEntry("sucesso", "info") \in emitidos
          \/ LogEntry("erro", "error") \in emitidos
    /\ (pendente.temLogs \/ resultado.temLogs \/ resposta.temLogs) =>
          args.debug
    /\ resultado.tipo = "return" => resultado.temLogs = args.debug
    /\ resposta.status = 200 => resposta.temLogs = args.debug
    /\ resposta.logs # {} => args.debug /\ resposta.temLogs
    /\ resposta.temLogs =>
          /\ resposta.logs \subseteq logs
          /\ LogEntry("inicio", "info") \in resposta.logs
          /\ LogEntry("sucesso", "info") \in resposta.logs

C16_Witness ==
    /\ resposta.status = 200 /\ ~args.debug
    /\ logs = {} /\ resposta.logs = {}
    /\ LogEntry("corpoWarn", "warn") \in emitidos

\* C15: once the finally block has been entered, no operation other than
\* close is issued on the session: the call is at a close, at the end of the
\* block or finished, no retry is running, no step of the try block runs,
\* and the console listener issues no page operation.
TeardownPcs == {"fecharPagina", "fecharContexto", "fecharNavegador", "gc", "done"}

C15_Passo ==
    TeardownComecou =>
        /\ UNCHANGED <<retry, handV, chainV, flagV, args, loginPasso, marcos,
                       erro, cleanupRuns, opsNoFecho>>
        /\ epc' \in TeardownPcs
        /\ \/ closeCalls' = closeCalls
           \/ /\ epc \in {"fecharPagina", "fecharContexto", "fecharNavegador"}
              /\ Len(closeCalls') = Len(closeCalls) + 1
              /\ SubSeq(closeCalls', 1, Len(closeCalls)) = closeCalls

C15_SoFechamentosNoTeardown ==
    /\ [](opsNoFecho = {})
    /\ [](TeardownComecou => epc \in TeardownPcs /\ retry = NoRetry)
    /\ [][C15_Passo]_vars

C15_Witness ==
    /\ epc = "gc" /\ ouvinte /\ pagina # Null
    /\ closeCalls = <<[h |-> "pagina", ok |-> FALSE]>>
    /\ LogEntry("consoleError", "warn") \in emitidos

\* C17: an uncaught exception and an unhandled promise rejection are each
\* logged at level fatal and followed by the termination of the process.
C17_FalhaFatalTermina ==
    /\ []("Uncaught Exception" \in fatais => proc = "exited" /\ exitCode = 1)
    /\ (fatais # {}) ~> (proc = "exited")

\* C18: after a signal the listener stops listening at once and the process
\* eventually exits: with code 0 from the close callback once the listener
\* has finished closing, with code 1 from the timer if it has not; also
\* with requests in flight and after a second signal.
Sinalizado == Len(sinais) > 0

C18_ShutdownSempreTermina ==
    /\ Sinalizado ~> (proc = "exited")
    /\ []((Sinalizado /\ proc = "running") =>
            /\ servidor = "closing"
            /\ timers = Len(sinais) /\ closeCbs = Len(sinais))
    /\ [](causaSaida = "closeCallback" =>
            exitCode = 0 /\ servidor = "closed" /\ emVoo = 0 /\ Sinalizado)
    /\ [](causaSaida = "timer" =>
            exitCode = 1 /\ servidor = "closing" /\ Sinalizado)
    /\ [](exitCode = 0 => causaSaida = "closeCallback")
    /\ [](servidor = "closed" => proc = "exited")

C18_Witness ==
    /\ proc = "exited" /\ causaSaida = "timer" /\ exitCode = 1
    /\ sinais = <<"SIGTERM", "SIGINT">> /\ emVoo > 0

\* C19: under every interleaving of concurrent requests, the locals of a
\* call hold only objects created for its request, every call on a
\* browser, context or page (close included) is made by the request it was
\* created for, a buffer and a response hold only log entries of their own
\* request, a step of one request changes nothing of another, and the
\* status of a response is decided by the request's own steps.
DoPedido(r) == {o \in abertos : o.de = r}

C19_Isolados ==
    /\ \A r \in Pedidos :
          /\ \A h \in {locais[r].navegador, locais[r].contexto, locais[r].pagina} :
                h = Nenhum \/ h.de = r
          /\ \A e \in locais[r].logs \cup pedidos[r].logs : e.de = r
          /\ pedidos[r].pc = "respondida" =>
                pedidos[r].status = IF ~pedidos[r].valido THEN 400
                                    ELSE IF pedidos[r].falhou THEN 500 ELSE 200
    /\ \A c \in chamadas : c.h.de = c.por

C19_PassoC ==
    \A r \in Pedidos :
        pedidos'[r] = pedidos[r] =>
            /\ locais'[r] = locais[r]
            /\ DoPedido(r)' = DoPedido(r)
            /\ {c \in chamadas' : c.por = r} = {c \in chamadas : c.por = r}

C19_PedidosNaoInterferem ==
    /\ []C19_Isolados
    /\ [][C19_PassoC]_vars

C19_Witness ==
    /\ pedidos[1].status = 200 /\ pedidos[1].debug
    /\ [de |-> 1, msg |-> "sucesso"] \in pedidos[1].logs
    /\ DoPedido(1) = {}
    /\ pedidos[2].pc = "trabalho" /\ pedidos[2].debug
    /\ locais[2].pagina \in abertos
    /\ Chamada(1, Objeto("browser", 1), "close") \in chamadas

\* C20: there is no admission control: a request that arrives is taken at
\* once and its launch can run whatever the number of open browsers, so
\* all the requests can hold an open browser at the same time; no request
\* is answered with anything but 400 (invalid), 500 (its own failure) or
\* 200.
C20_SemControleDeAdmissao ==
    \A r \in Pedidos :
        /\ pedidos[r].pc = "idle" => ENABLED Chega(r)
        /\ pedidos[r].pc = "launch" => ENABLED Lanca(r)
        /\ pedidos[r].status \in {0, 200, 400, 500}
        /\ pedidos[r].status = 400 => ~pedidos[r].valido
        /\ pedidos[r].status = 500 => pedidos[r].falhou

C20_Witness ==
    /\ Vivos = MaxPedidos
    /\ \A r \in Pedidos :
          pedidos[r].pc = "trabalho" /\ locais[r].navegador \in abertos

\* C21: a console-error event can be handled at every point from the
\* registration of the listener to the close of the page, whatever the
\* step of the sequence; handling it adds one warning to the log and leaves
\* the position, the retry frame, the flags, the handles, the completion and
\* the response as they were.
ConsoleWarn == LogEntry("consoleError", "warn")

C21_Passo ==
    (ConsoleWarn \notin emitidos /\ ConsoleWarn \in emitidos') =>
        /\ UNCHANGED <<retryV, httpV, handV, chainV, flagV, callV, erro,
                       pendente, resultado, cleanupRuns, closeCalls>>
        /\ emitidos' = emitidos \cup {ConsoleWarn}
        /\ logs' = IF args.debug THEN logs \cup {ConsoleWarn} ELSE logs

C21_ConsoleErrorSoRegistra ==
    /\ []((ouvinte /\ ~TeardownComecou) => ENABLED ConsoleError)
    /\ [](ConsoleWarn \in emitidos => ouvinte /\ pagina # Null)
    /\ [](erro.msg # "console")
    /\ [][C21_Passo]_vars

C21_Witness ==
    /\ ConsoleWarn \in emitidos
    /\ epc = "clicar" /\ retry.attempt = 2 /\ cand = 1

\* What holds of the steps that run under retryOperation: an error of the
\* login unit, of the composer wait or of a send pass reaches the catch
\* block only from the last of its 3 invocations, and nothing is retried
\* once the catch block has been reached.
PassosComRetry == {"launch", "goto", "email", "senha", "compositor", "enviar"}

FalhaSoAposAsTentativas ==
    /\ erro.msg \in PassosComRetry => erro.call = maxRetries
    /\ erro # NoError => retry = NoRetry /\ TeardownComecou

\* C22: a failure of a step of the login and compose sequences (navigation,
\* wait for an input, To, Subject, compose, send) becomes the failure of the
\* request only after the step was invoked again a bounded number of times,
\* and nothing is retried after that.
PassosDaSequencia ==
    {"goto", "email", "senha", "compositor", "para", "assunto", "enviar"}

C22_FalhaDePassoRetentada ==
    /\ erro.msg \in PassosDaSequencia => erro.call > 1 /\ erro.call <= maxRetries
    /\ erro # NoError => retry = NoRetry /\ TeardownComecou

\* C23: the launch and the login unit each run under retryOperation with
\* 3 attempts and an initial delay of 5000 ms; a failure of goto, of the
\* e-mail step or of the password step starts the unit again at goto; the
\* routes are installed once, before the unit is entered, and never from
\* inside it; when either unit has failed 3 times the call throws and no
\* compose step has run.
C23_Passo ==
    /\ (epc = "login" /\ retry'.calls = retry.calls + 1) =>
          epc' = "login" /\ loginPasso' = "goto"
    /\ epc' = "rotas" => epc \in {"newPage", "rotas"}
    /\ epc = "login" => epc' \in {"login", "manterConectado", "fecharPagina"}
    /\ (epc = "login" /\ epc' = "manterConectado") => loginPasso = "senha"
    /\ (epc \in {"launch", "login"} /\ epc' = "fecharPagina") =>
          retry.calls = 3 /\ erro'.call = 3

C23_LaunchELoginSobRetry ==
    /\ [](epc \in {"launch", "login"} =>
            /\ retry.pc = "op"
            /\ retry.maxRetries = 3 /\ MsEq(retry.initialDelay, Ms(5000))
            /\ retry.calls \in 1..3)
    /\ [](epc = "login" => ouvinte /\ loginPasso \in {"goto", "email", "senha"})
    /\ [](erro.msg \in {"launch", "goto", "email", "senha"} =>
            /\ erro.call = 3
            /\ marcos = <<>> /\ ~botaoClicado /\ viaNovo = "none"
            /\ epc \in TeardownPcs)
    /\ [][C23_Passo]_vars

C23_Witness ==
    /\ erro.msg = "senha" /\ erro.call = 3
    /\ resposta.status = 500

\* What holds after the credentials are submitted: the stay-signed-in step
\* and the idle-network wait never reach the catch block of enviarEmail;
\* the first goes on to the idle-network wait, the second to the compose
\* chain or, on a timeout, to the content-loaded wait.
PromptEIdle_Passo ==
    /\ epc = "manterConectado" => epc' \in {"manterConectado", "networkidle"}
    /\ epc = "networkidle" =>
          epc' \in {"networkidle", "domcontentloaded", "seletor"}
    /\ epc \in {"manterConectado", "networkidle"} => UNCHANGED <<erro, pendente>>

PromptEIdleNaoFalham == [][PromptEIdle_Passo]_vars

\* C24: after the credentials are submitted, no error of the stay-signed-in
\* step, of the idle-network wait or of the content-loaded wait that
\* replaces it on a timeout is the failure of the request: the sequence
\* always goes on to the compose chain.
C24_PosLoginSempreContinua ==
    erro.msg \notin {"manterConectado", "networkidle", "domcontentloaded"}

\* C25: the send control is activated successfully at most once in a
\* request: once emailEnviado is set, no send rule is tried, the scripted
\* search is not run, the pass ends without throwing and the retry starts
\* no further attempt.
EnviosFeitos == Cardinality({i \in 1..Len(marcos) : marcos[i] = "enviar"})

C25_Passo ==
    /\ emailEnviado => emailEnviado'
    /\ emailEnviado => retry'.calls <= retry.calls
    /\ (emailEnviado /\ epc = "fimPasse") => epc' \in {"fimPasse", "confirmar"}
    /\ (~emailEnviado /\ emailEnviado') =>
          /\ epc \in {"enviar", "jsEnviar"} /\ epc' = "fimPasse"
          /\ marcos' = Append(marcos, "enviar")

C25_EnviarNoMaximoUmaVez ==
    /\ [](emailEnviado =>
            /\ epc \notin {"enviar", "jsEnviar"}
            /\ viaEnviar \in {"regra", "script"}
            /\ EnviosFeitos = 1
            /\ erro = NoError)
    /\ [](~emailEnviado => EnviosFeitos = 0 /\ viaEnviar = "none")
    /\ [][C25_Passo]_vars

C25_Witness ==
    /\ emailEnviado /\ epc = "fimPasse" /\ viaEnviar = "regra"
    /\ retry.calls = 3 /\ sel = 2

\* C26: in the compose chain only the first 5 matches of a rule are
\* considered; a structural click is made only on a candidate that passed
\* the predicate and then the visibility check; and when the click has
\* failed on its 3 attempts nothing is thrown to the request: the chain goes
\* on with the next candidate, else the next rule, else the scripted search.
CandidatoPcs == {"candidato", "visivel", "preparar", "clicar"}

C26_Passo ==
    /\ (epc' = "visivel" /\ epc # "visivel") => epc = "candidato"
    /\ (epc' = "preparar" /\ epc # "preparar") => epc = "visivel"
    /\ (epc' = "clicar" /\ epc # "clicar") => epc = "preparar"
    /\ (viaNovo' = "regra" /\ viaNovo # "regra") => epc = "clicar"
    /\ (epc = "clicar" /\ epc' # "clicar" /\ ~botaoClicado') =>
          /\ retry.calls = 3
          /\ UNCHANGED <<erro, pendente, cleanupRuns>>
          /\ IF cand + 1 < quantidade /\ cand + 1 < 5
             THEN epc' = "candidato" /\ cand' = cand + 1 /\ sel' = sel
             ELSE IF sel < NumSeletoresNovoEmail
                  THEN epc' = "seletor" /\ sel' = sel + 1
                  ELSE epc' = "jsNovo"

C26_CandidatosLimitadosECliqueNaoAborta ==
    /\ [](epc \in CandidatoPcs => cand \in 0..4 /\ cand < quantidade)
    /\ [](epc = "clicar" => retry.maxRetries = 3 /\ retry.calls \in 1..3)
    /\ [](erro.msg # "click")
    /\ [][C26_Passo]_vars

C26_Witness ==
    /\ epc = "clicar" /\ quantidade = 6 /\ cand = 4
    /\ retry.calls = 3 /\ sel = NumSeletoresNovoEmail

\* C27: when every awaited operation returns or times out, a request that
\* has arrived is eventually answered, with 400, 200 or 500; the response
\* once sent is never replaced; and the loops are bounded: at most 3
\* invocations per retry, 10 compose rules, 5 candidates, 7 send rules.
C27_Passo ==
    /\ resposta.status # 0 => resposta' = resposta
    /\ hpc = "respondida" => hpc' = "respondida"

C27_UmaRespostaPorPedido ==
    /\ (hpc # "idle") ~> (hpc = "respondida")
    /\ [](hpc \in {"idle", "aguardando", "respondida"})
    /\ [](hpc = "respondida" <=> resposta.status \in {200, 400, 500})
    /\ [](resposta.status \in {0, 200, 400, 500})
    /\ [](/\ retry.calls <= 3 /\ retry.calls <= retry.maxRetries
          /\ sel <= NumSeletoresNovoEmail /\ cand < 5
          /\ epc \in {"enviar", "jsEnviar", "fimPasse"} =>
                sel <= NumSeletoresEnviar)
    /\ [][C27_Passo]_vars

C27_Witness ==
    /\ hpc = "respondida" /\ resposta.status = 500
    /\ erro.msg = "enviar" /\ erro.call = 3

====
